---------------------------- MODULE Spec2Model ----------------------------
(***************************************************************************)
(* A model of foldflow/models/components/layers.py: the weight             *)
(* initializers, the Dense and Linear layers, the basis down-projection,   *)
(* the CrossAttention module and CrossAttentionTransformerEncoderLayer.    *)
(*                                                                         *)
(* Tensors are modelled by their shape and, where a claim is about values, *)
(* by their elements.  A random draw is modelled by a tag naming the       *)
(* distribution it is drawn from.  A Python exception is modelled by the   *)
(* "outcome" field of the record the raising operation leaves behind.      *)
(***************************************************************************)
EXTENDS Integers, Sequences, FiniteSets, TLC

VARIABLES
    names,   \* free names of the module that resolve when a function body runs
    he,      \* the tensor last handed to he_orthogonal_init
    affine,  \* the Dense or Linear layer last constructed, and its forward call
    proj,    \* the EfficientInteractionDownProjection last constructed, and its forward call
    ca,      \* the CrossAttention module last constructed, and its forward call
    enc      \* the CrossAttentionTransformerEncoderLayer last constructed, and its forward call

vars == <<names, he, affine, proj, ca, enc>>

(***************************************************************************)
(* Bounds of the model.                                                    *)
(***************************************************************************)
MaxDim == 2        \* every tensor dimension and layer width ranges over 1..MaxDim
MaxRank == 4       \* he_orthogonal_init is applied to tensors of rank 1..MaxRank

Dims == 1..MaxDim

(***************************************************************************)
(* Generic helpers.                                                        *)
(***************************************************************************)
\* Python's None / a present value, for optional arguments and attributes.
None == <<>>
Some(v) == <<v>>
exists(val) == val # None

RECURSIVE SeqProd(_)
SeqProd(s) == IF s = <<>> THEN 1 ELSE s[1] * SeqProd(Tail(s))

\* All sequences over S of length lo..hi.
SeqsOf(S, lo, hi) == UNION { [1..n -> S] : n \in lo..hi }

\* tensor.shape[:-1]
AllButLast(shape) == SubSeq(shape, 1, Len(shape) - 1)

(***************************************************************************)
(* The module's name space.  `isfunction` (used by default) and            *)
(* `_get_activation_fn` (used by the encoder layer's constructor) are free *)
(* names that no import or definition of the file binds; a function body   *)
(* that evaluates an unbound name raises NameError.  As the file stands    *)
(* neither resolves (Init).  InitEnv also admits an embedding program that *)
(* binds them to what they name in the libraries the file is taken from    *)
(* (inspect.isfunction, torch.nn.modules.transformer._get_activation_fn).  *)
(***************************************************************************)
FreeNames == {"isfunction", "_get_activation_fn"}

(***************************************************************************)
(* he_orthogonal_init and _standardize.                                    *)
(***************************************************************************)
\* _standardize: the axes the variance and mean are taken over (0-based).
standardize_axis(shape) == IF Len(shape) = 3 THEN <<0, 1>> ELSE <<1>>

\* Number of elements reduced over by torch.var_mean along those axes.
standardize_count(shape) ==
    IF Len(shape) = 3 THEN shape[1] * shape[2] ELSE shape[2]

\* The fan_in of he_orthogonal_init, as the claim under test states it.
he_fan_in_all_but_last(shape) == SeqProd(AllButLast(shape))

\* The fan_in used in the final scaling by (1 / fan_in) ** 0.5.
he_fan_in(shape) ==
    IF Len(shape) = 3 THEN SeqProd(AllButLast(shape)) ELSE shape[2]

NoTensor == [outcome |-> "none", shape |-> <<>>, fan_in |-> 0,
             axis |-> <<>>, nan |-> FALSE]

\* torch.nn.init.orthogonal_ rejects tensors with fewer than 2 dimensions.
\* The unbiased variance over a single element is NaN, and so is the result.
he_orthogonal_init(shape) ==
    IF Len(shape) < 2
    THEN [NoTensor EXCEPT !.outcome = "ValueError", !.shape = shape]
    ELSE [outcome |-> "ok", shape |-> shape, fan_in |-> he_fan_in(shape),
          axis |-> standardize_axis(shape),
          nan |-> standardize_count(shape) = 1]

HeShapes == SeqsOf(1..(MaxDim + 1), 1, MaxRank)

HeOrthogonalInit ==
    /\ \E shape \in HeShapes : he' = he_orthogonal_init(shape)
    /\ UNCHANGED <<names, affine, proj, ca, enc>>

(***************************************************************************)
(* Dense.                                                                  *)
(***************************************************************************)
UpperCase == <<"A","B","C","D","E","F","G","H","I","J","K","L","M",
               "N","O","P","Q","R","S","T","U","V","W","X","Y","Z">>
LowerCase == <<"a","b","c","d","e","f","g","h","i","j","k","l","m",
               "n","o","p","q","r","s","t","u","v","w","x","y","z">>

LowerChar(c) ==
    IF \E i \in 1..26 : UpperCase[i] = c
    THEN LowerCase[CHOOSE i \in 1..26 : UpperCase[i] = c]
    ELSE c

\* str.lower(), on a string given as the sequence of its characters.
lower(s) == [i \in 1..Len(s) |-> LowerChar(s[i])]

\* The values the `activation` argument is drawn from.
ActNone == [kind |-> "None", chars |-> <<>>]
ActStr(s) == [kind |-> "str", chars |-> s]
ActCallable == [kind |-> "callable", chars |-> <<>>]

Swish == <<"s","w","i","s","h">>
Silu == <<"s","i","l","u">>

Activations ==
    {ActNone, ActCallable,
     ActStr(Swish), ActStr(<<"S","w","i","s","h">>),
     ActStr(Silu), ActStr(<<"S","I","L","U">>),
     ActStr(<<"r","e","l","u">>), ActStr(<<"s","w","i","s","h","2">>)}

\* Lines 77-78: a string activation is lower-cased, anything else is kept.
Dense_normalize(activation) ==
    IF activation.kind = "str" THEN ActStr(lower(activation.chars)) ELSE activation

\* Lines 79-86: the activation module chosen for a normalized activation.
Dense_select(activation) ==
    IF activation \in {ActStr(Swish), ActStr(Silu)}
    THEN [outcome |-> "ok", act |-> "ScaledSiLU"]
    ELSE IF activation = ActNone
         THEN [outcome |-> "ok", act |-> "Identity"]
         ELSE [outcome |-> "NotImplementedError", act |-> ""]

NoDense == [outcome |-> "none", activation |-> ActNone,
            in_features |-> 0, out_features |-> 0,
            weight |-> NoTensor, bias |-> None, act |-> "",
            fwd |-> "none", applied |-> ""]

\* Dense.__init__ with reset_parameters: the wrapped torch.nn.Linear has a
\* weight of shape (out_features, in_features), initialized by
\* he_orthogonal_init, and a bias (if any) filled with 0.
Dense_init(in_features, out_features, bias, activation) ==
    LET sel == Dense_select(Dense_normalize(activation))
    IN  [outcome |-> sel.outcome, activation |-> activation,
         in_features |-> in_features, out_features |-> out_features,
         weight |-> he_orthogonal_init(<<out_features, in_features>>),
         bias |-> IF bias THEN Some([i \in 1..out_features |-> 0]) ELSE None,
         act |-> sel.act, fwd |-> "none", applied |-> ""]


\* Dense.forward: self.linear(x), then self._activation.  x of a last
\* dimension other than in_features is a shape error of the affine transform.
Dense_forward(layer, xdim) ==
    IF xdim # layer.in_features
    THEN [layer EXCEPT !.fwd = "RuntimeError", !.applied = ""]
    ELSE [layer EXCEPT !.fwd = "ok", !.applied = layer.act]


(***************************************************************************)
(* The initializers of Linear.  An element of a weight or bias is either a *)
(* constant or a draw from a named distribution with its parameters.       *)
(***************************************************************************)
Const(c) == [k |-> "const", v |-> c, dist |-> "", p |-> <<>>]
Rand(d, p) == [k |-> "rand", v |-> 0, dist |-> d, p |-> p]

\* A tensor of the given shape (rank 1 or 2) whose elements are all e.
Filled(shape, e) ==
    IF Len(shape) = 1
    THEN [i \in 1..shape[1] |-> e]
    ELSE [ij \in (1..shape[1]) \X (1..shape[2]) |-> e]

ScaleLecun == 1     \* lecun_normal_init_: scale=1.0
ScaleHe == 2        \* he_normal_init_: scale=2.0
TruncA == -2        \* trunc_normal_init_: a
TruncB == 2         \* trunc_normal_init_: b

\* _calculate_fan: a rational <<numerator, denominator>>, or an error.
calculate_fan(linear_weight_shape, fan) ==
    LET fan_out == linear_weight_shape[1]
        fan_in == linear_weight_shape[2]
    IN  IF fan = "fan_in" THEN [outcome |-> "ok", f |-> <<fan_in, 1>>]
        ELSE IF fan = "fan_out" THEN [outcome |-> "ok", f |-> <<fan_out, 1>>]
        ELSE IF fan = "fan_avg" THEN [outcome |-> "ok", f |-> <<fan_in + fan_out, 2>>]
        ELSE [outcome |-> "ValueError", f |-> <<0, 1>>]

\* max(1, f) of a rational f.
Max1(f) == IF f[1] < f[2] THEN <<1, 1>> ELSE f

\* trunc_normal_init_: every element is drawn from a normal truncated to
\* [a, b] standard deviations whose variance is scale / max(1, f); the tag
\* carries scale * denominator(f), numerator(f), a, b.
trunc_normal_init_(shape, scale, fan) ==
    LET cf == calculate_fan(shape, fan)
        m == Max1(cf.f)
    IN  Filled(shape, Rand("truncnorm", <<scale * m[2], m[1], TruncA, TruncB>>))

lecun_normal_init_(shape) == trunc_normal_init_(shape, ScaleLecun, "fan_in")
he_normal_init_(shape) == trunc_normal_init_(shape, ScaleHe, "fan_in")
glorot_uniform_init_(shape) == Filled(shape, Rand("xavier_uniform", <<1>>))
final_init_(shape) == Filled(shape, Const(0))
gating_init_(shape) == Filled(shape, Const(0))
normal_init_(shape) == Filled(shape, Rand("kaiming_normal_linear", <<>>))

(***************************************************************************)
(* Linear.__init__.  The constructor is a sequence of steps over the       *)
(* object under construction; `log` records the initialization steps in    *)
(* the order they ran, an init_fn entry with the bias it was handed.       *)
(***************************************************************************)
InitStrings == {"default", "relu", "glorot", "gating", "normal", "final"}
InitArgs == InitStrings \cup {"Gating", "bogus"}

\* The custom initializers the init_fn argument is drawn from: absent, one
\* that leaves both tensors alone, one that fills both with 1.
InitFns == {"None", "keep", "ones"}

Entry(op, saw) == [op |-> op, saw |-> saw]

\* Line 346: torch.nn.Linear's own constructor; weight (out_dim, in_dim) and
\* bias (out_dim) hold torch's default random draws.
Linear_super(in_dim, out_dim, bias) ==
    [outcome |-> "ok", in_dim |-> in_dim, out_dim |-> out_dim,
     bias_flag |-> bias,
     weight |-> Filled(<<out_dim, in_dim>>, Rand("torch_default", <<in_dim>>)),
     bias |-> IF bias THEN Some(Filled(<<out_dim>>, Rand("torch_default", <<in_dim>>)))
              ELSE None,
     log |-> <<>>]

\* Lines 348-350.
Linear_zero_bias(st) ==
    IF st.bias_flag
    THEN [st EXCEPT !.bias = Some(Filled(<<st.out_dim>>, Const(0))),
                    !.log = Append(@, Entry("bias.fill_(0)", None))]
    ELSE st

\* Line 353: init_fn(self.weight, self.bias).
Linear_call_init_fn(st, init_fn) ==
    LET logged == [st EXCEPT !.log = Append(@, Entry("init_fn", st.bias))]
    IN  IF init_fn = "ones"
        THEN [logged EXCEPT
                !.weight = Filled(<<st.out_dim, st.in_dim>>, Const(1)),
                !.bias = IF exists(st.bias)
                         THEN Some(Filled(<<st.out_dim>>, Const(1))) ELSE None]
        ELSE logged

\* Linear_named with the final else branch falling back to "default".
Linear_named_fallback(st, init) ==
    LET shape == <<st.out_dim, st.in_dim>>
        W(w, op) == [st EXCEPT !.weight = w, !.log = Append(@, Entry(op, None))]
    IN  IF init = "relu" THEN W(he_normal_init_(shape), "he_normal_init_")
        ELSE IF init = "glorot" THEN W(glorot_uniform_init_(shape), "glorot_uniform_init_")
        ELSE IF init = "gating"
             THEN LET g == W(gating_init_(shape), "gating_init_")
                  IN  IF st.bias_flag
                      THEN [g EXCEPT !.bias = Some(Filled(<<st.out_dim>>, Const(1))),
                                     !.log = Append(@, Entry("bias.fill_(1.0)", None))]
                      ELSE g
        ELSE IF init = "normal" THEN W(normal_init_(shape), "normal_init_")
        ELSE IF init = "final" THEN W(final_init_(shape), "final_init_")
        ELSE W(lecun_normal_init_(shape), "lecun_normal_init_")

\* Linear_named with gating leaving the bias at the zero it was given.
Linear_named_gating_no_bias(st, init) ==
    LET shape == <<st.out_dim, st.in_dim>>
        W(w, op) == [st EXCEPT !.weight = w, !.log = Append(@, Entry(op, None))]
    IN  IF init = "default" THEN W(lecun_normal_init_(shape), "lecun_normal_init_")
        ELSE IF init = "relu" THEN W(he_normal_init_(shape), "he_normal_init_")
        ELSE IF init = "glorot" THEN W(glorot_uniform_init_(shape), "glorot_uniform_init_")
        ELSE IF init = "gating" THEN W(gating_init_(shape), "gating_init_")
        ELSE IF init = "normal" THEN W(normal_init_(shape), "normal_init_")
        ELSE IF init = "final" THEN W(final_init_(shape), "final_init_")
        ELSE [st EXCEPT !.outcome = "ValueError"]

\* Lines 355-371: the named scheme.
Linear_named(st, init) ==
    LET shape == <<st.out_dim, st.in_dim>>
        W(w, op) == [st EXCEPT !.weight = w, !.log = Append(@, Entry(op, None))]
    IN  IF init = "default" THEN W(lecun_normal_init_(shape), "lecun_normal_init_")
        ELSE IF init = "relu" THEN W(he_normal_init_(shape), "he_normal_init_")
        ELSE IF init = "glorot" THEN W(glorot_uniform_init_(shape), "glorot_uniform_init_")
        ELSE IF init = "gating"
             THEN LET g == W(gating_init_(shape), "gating_init_")
                  IN  IF st.bias_flag
                      THEN [g EXCEPT !.bias = Some(Filled(<<st.out_dim>>, Const(1))),
                                     !.log = Append(@, Entry("bias.fill_(1.0)", None))]
                      ELSE g
        ELSE IF init = "normal" THEN W(normal_init_(shape), "normal_init_")
        ELSE IF init = "final" THEN W(final_init_(shape), "final_init_")
        ELSE [st EXCEPT !.outcome = "ValueError"]

\* Linear_init with the custom initializer running before the bias is zeroed.
Linear_init_fn_first(in_dim, out_dim, bias, init, init_fn) ==
    LET s0 == Linear_super(in_dim, out_dim, bias)
    IN  IF init_fn # "None"
        THEN Linear_zero_bias(Linear_call_init_fn(s0, init_fn))
        ELSE Linear_named(Linear_zero_bias(s0), init)

\* Lines 346-371: the whole constructor.
Linear_init(in_dim, out_dim, bias, init, init_fn) ==
    LET s1 == Linear_zero_bias(Linear_super(in_dim, out_dim, bias))
    IN  IF init_fn # "None"
        THEN Linear_call_init_fn(s1, init_fn)
        ELSE Linear_named(s1, init)

NoLinear == [outcome |-> "none", init |-> "", init_fn |-> "None", obj |-> Linear_super(1, 1, FALSE)]

(***************************************************************************)
(* The Dense / Linear layer under construction or in use.  `affine` follows *)
(* the layer constructed last; a forward call runs to its return or to the *)
(* exception it raises, and its frame is dropped when the call returns.    *)
(***************************************************************************)
NoLayer == [kind |-> "none", dense |-> NoDense, lin |-> NoLinear]

DenseInit ==
    /\ affine.dense.fwd = "none"
    /\ \E i \in Dims, o \in Dims, b \in BOOLEAN, a \in Activations :
          affine' = [kind |-> "Dense", dense |-> Dense_init(i, o, b, a),
                    lin |-> NoLinear]
    /\ UNCHANGED <<names, he, proj, ca, enc>>

\* Only a affine the constructor returned can be called.
DenseForward ==
    /\ affine.kind = "Dense"
    /\ affine.dense.outcome = "ok"
    /\ affine.dense.fwd = "none"
    /\ \E xdim \in Dims :
          affine' = [affine EXCEPT !.dense = Dense_forward(affine.dense, xdim)]
    /\ UNCHANGED <<names, he, proj, ca, enc>>

DenseReturn ==
    /\ affine.dense.fwd # "none"
    /\ affine' = [affine EXCEPT !.dense.fwd = "none", !.dense.applied = ""]
    /\ UNCHANGED <<names, he, proj, ca, enc>>

LinearInit ==
    /\ affine.dense.fwd = "none"
    /\ \E i \in Dims, o \in Dims, b \in BOOLEAN, init \in InitArgs, f \in InitFns :
          LET st == Linear_init(i, o, b, init, f)
          IN  affine' = [kind |-> "Linear", dense |-> NoDense,
                        lin |-> [outcome |-> st.outcome, init |-> init,
                                 init_fn |-> f, obj |-> st]]
    /\ UNCHANGED <<names, he, proj, ca, enc>>

(***************************************************************************)
(* EfficientInteractionDownProjection.  Tensors are their shapes.          *)
(***************************************************************************)
NoShape == <<>>

\* torch.matmul of two rank-3 tensors: a batched matrix product.  The batch
\* dimensions broadcast, the contracted dimensions must agree.
matmul(a, b) ==
    IF a[3] # b[2] THEN [outcome |-> "RuntimeError", shape |-> NoShape]
    ELSE IF a[1] = b[1] \/ b[1] = 1 THEN [outcome |-> "ok", shape |-> <<a[1], a[2], b[3]>>]
    ELSE IF a[1] = 1 THEN [outcome |-> "ok", shape |-> <<b[1], a[2], b[3]>>]
    ELSE [outcome |-> "RuntimeError", shape |-> NoShape]

\* Tensor.permute with 0-based dimension numbers.
permute(shape, dims) == [i \in 1..Len(dims) |-> shape[dims[i] + 1]]

\* torch.transpose with 0-based dimension numbers.
transpose(shape, d0, d1) ==
    [i \in 1..Len(shape) |->
        IF i = d0 + 1 THEN shape[d1 + 1]
        ELSE IF i = d1 + 1 THEN shape[d0 + 1]
        ELSE shape[i]]

NoProj == [outcome |-> "none", num_spherical |-> 0, num_radial |-> 0,
           emb_size_interm |-> 0, weight |-> NoTensor,
           fwd |-> "none", rbf_env |-> NoShape, sph_in |-> NoShape,
           rbf_W1 |-> NoShape, sph |-> NoShape]

\* Lines 154-174: __init__ with reset_parameters.
Proj_init(num_spherical, num_radial, emb_size_interm) ==
    [NoProj EXCEPT
        !.outcome = "ok",
        !.num_spherical = num_spherical,
        !.num_radial = num_radial,
        !.emb_size_interm = emb_size_interm,
        !.weight = he_orthogonal_init(<<num_spherical, num_radial, emb_size_interm>>)]

\* Proj_forward with the product permuted by (1, 0, 2) and sph passed through.
Proj_forward_wrong_axes(layer, rbf_env, sph) ==
    LET m == matmul(rbf_env, layer.weight.shape)
    IN  IF m.outcome # "ok"
        THEN [layer EXCEPT !.fwd = m.outcome, !.rbf_env = rbf_env, !.sph_in = sph,
                           !.rbf_W1 = NoShape, !.sph = NoShape]
        ELSE [layer EXCEPT !.fwd = "ok", !.rbf_env = rbf_env, !.sph_in = sph,
                           !.rbf_W1 = permute(m.shape, <<1, 0, 2>>),
                           !.sph = sph]

\* Lines 176-194: forward.
Proj_forward(layer, rbf_env, sph) ==
    LET m == matmul(rbf_env, layer.weight.shape)
    IN  IF m.outcome # "ok"
        THEN [layer EXCEPT !.fwd = m.outcome, !.rbf_env = rbf_env, !.sph_in = sph,
                           !.rbf_W1 = NoShape, !.sph = NoShape]
        ELSE [layer EXCEPT !.fwd = "ok", !.rbf_env = rbf_env, !.sph_in = sph,
                           !.rbf_W1 = permute(m.shape, <<1, 2, 0>>),
                           !.sph = transpose(sph, 1, 2)]

Shapes3 == [1..3 -> Dims]

ProjInit ==
    /\ proj.fwd = "none"
    /\ \E s \in Dims, r \in Dims, e \in Dims : proj' = Proj_init(s, r, e)
    /\ UNCHANGED <<names, he, affine, ca, enc>>

ProjForward ==
    /\ proj.outcome = "ok"
    /\ proj.fwd = "none"
    /\ \E rbf_env \in Shapes3, sph \in Shapes3 :
          proj' = Proj_forward(proj, rbf_env, sph)
    /\ UNCHANGED <<names, he, affine, ca, enc>>

ProjReturn ==
    /\ proj.fwd # "none"
    /\ proj' = [proj EXCEPT !.fwd = "none", !.rbf_env = NoShape, !.sph_in = NoShape,
                            !.rbf_W1 = NoShape, !.sph = NoShape]
    /\ UNCHANGED <<names, he, affine, ca, enc>>

(***************************************************************************)
(* exists / default.                                                       *)
(***************************************************************************)
\* Lines 382-385.  val is an optional value; d is never a function at the
\* two call sites (an int, a tensor), so once `isfunction` resolves the
\* result is d itself.  With `isfunction` unbound, reaching line 385 raises.
default(val, d, bound) ==
    IF exists(val) THEN [outcome |-> "ok", v |-> val[1]]
    ELSE IF "isfunction" \notin bound THEN [outcome |-> "NameError", v |-> d]
    ELSE [outcome |-> "ok", v |-> d]

(***************************************************************************)
(* Extended numbers for the attention logits: a finite value (an integer   *)
(* multiple of ln 2), the most negative finite value of a dtype, negative  *)
(* infinity, NaN.                                                          *)
(***************************************************************************)
Fin(n) == [k |-> "fin", v |-> n, dt |-> ""]
NegMax(dtype) == [k |-> "negmax", v |-> 0, dt |-> dtype]
NegInf == [k |-> "ninf", v |-> 0, dt |-> ""]
NaN == [k |-> "nan", v |-> 0, dt |-> ""]

RECURSIVE Pow2(_)
Pow2(n) == IF n <= 0 THEN 1 ELSE 2 * Pow2(n - 1)

SetMax(S) == CHOOSE x \in S : \A y \in S : y <= x
SetMin(S) == CHOOSE x \in S : \A y \in S : x <= y

RECURSIVE SetSum(_, _)
SetSum(f, S) ==
    IF S = {} THEN 0
    ELSE LET x == CHOOSE y \in S : TRUE IN f[x] + SetSum(f, S \ {x})

\* The maximum of a row of extended numbers (NaN absent on entry).
RowMax(row) ==
    LET J == DOMAIN row
        fins == {row[j].v : j \in {jj \in J : row[jj].k = "fin"}}
    IN  IF fins # {} THEN Fin(SetMax(fins))
        ELSE IF \E j \in J : row[j].k = "negmax"
             THEN row[CHOOSE j \in J : row[j].k = "negmax"]
             ELSE NegInf

\* x - mx in floating point, for mx the row maximum.
ExtSub(x, mx) ==
    IF x.k = "nan" \/ mx.k = "nan" THEN NaN
    ELSE IF x.k = "fin" THEN Fin(x.v - mx.v)
    ELSE IF x.k = "negmax" THEN (IF mx.k = "negmax" THEN Fin(0) ELSE x)
    ELSE (IF mx.k = "ninf" THEN NaN ELSE NegInf)

\* Tensor.softmax over one row: subtract the row maximum, exponentiate,
\* divide by the sum.  exp of a finite multiple d*ln2 is 2^d; exp of the
\* most negative finite value, and of negative infinity, is exactly 0.
\* Each probability is a fraction <<num, den>>, or NaN.
softmax_row(row) ==
    LET J == DOMAIN row
        mx == RowMax(row)
        d == [j \in J |-> ExtSub(row[j], mx)]
        fins == {d[j].v : j \in {jj \in J : d[jj].k = "fin"}}
        lo == IF fins = {} THEN 0 ELSE SetMin(fins)
        w == [j \in J |-> IF d[j].k = "fin" THEN Pow2(d[j].v - lo) ELSE 0]
        total == SetSum(w, J)
    IN  IF \E j \in J : d[j].k = "nan"
        THEN [j \in J |-> [nan |-> TRUE, num |-> 0, den |-> 0]]
        ELSE [j \in J |-> [nan |-> FALSE, num |-> w[j], den |-> total]]

(***************************************************************************)
(* CrossAttention.                                                         *)
(***************************************************************************)
DefaultHeads == 8      \* heads=8
DefaultDimHead == 64   \* dim_head=64

\* dim_head ** -0.5 is 1 / Isqrt(dim_head); dim_head ranges over squares.
Isqrt(n) == CHOOSE r \in 1..n : r * r = n

NoLinearShape == [in |-> 0, out |-> 0]

NoCall == [outcome |-> "none", by |-> "", b |-> 0, n |-> 0, m |-> 0, dtype |-> "",
           ctx_given |-> FALSE, kv_from |-> "",
           q |-> <<>>, k |-> <<>>,
           mask |-> None, sim |-> <<>>, attn |-> <<>>,
           out |-> NoShape, out_nan |-> FALSE]

NoCA == [outcome |-> "none", query_dim |-> 0, context_dim_arg |-> None,
         heads |-> 0, dim_head |-> 0,
         to_q |-> NoLinearShape, to_k |-> NoLinearShape,
         to_v |-> NoLinearShape, to_out |-> NoLinearShape,
         fwd |-> NoCall]

\* Lines 391-405: __init__.
CA_init(query_dim, context_dim, heads, dim_head, bound) ==
    LET inner_dim == dim_head * heads
        cd == default(context_dim, query_dim, bound)
        args == [NoCA EXCEPT !.query_dim = query_dim,
                             !.context_dim_arg = context_dim]
    IN  IF cd.outcome # "ok"
        THEN [args EXCEPT !.outcome = cd.outcome]
        ELSE [args EXCEPT
                !.outcome = "ok",
                !.heads = heads,
                !.dim_head = dim_head,
                !.to_q = [in |-> query_dim, out |-> inner_dim],
                !.to_k = [in |-> cd.v, out |-> inner_dim],
                !.to_v = [in |-> cd.v, out |-> inner_dim],
                !.to_out = [in |-> inner_dim, out |-> query_dim]]

\* An input tensor of shape (b, len(feat), dim): every component of
\* position i is feat[i], in every batch item; the batch size and dtype are
\* arguments of the call.
Tensor3(dim, feat) == [dim |-> dim, feat |-> feat]

\* nn.Linear applied to a tensor: a shape error unless the last dimension
\* is in_features.  The projection weights are taken with every entry
\* 1 / in_features, so each output component of position i is feat[i].
apply_linear(l, t) ==
    IF t.dim # l.in THEN [outcome |-> "RuntimeError", t |-> t]
    ELSE [outcome |-> "ok", t |-> Tensor3(l.out, t.feat)]

\* Line 417: einsum("b i d, b j d -> b i j", q, k) * self.scale, after
\* rearrange "b n (h d) -> (b h) n d": dim_head products summed, then scaled.
CA_sim(layer, q, k, b) ==
    [idx \in (1..(b * layer.heads)) \X (1..Len(q)) \X (1..Len(k)) |->
        Fin((layer.dim_head * q[idx[2]] * k[idx[3]]) \div Isqrt(layer.dim_head))]

\* Line 422: repeat(mask, "b j -> (b h) () j", h=h); row (b-1)*h + hh of
\* the result is row b of the mask.
CA_repeat(mask, h, bh) == ((bh - 1) \div h) + 1

\* CA_masked_fill filling with negative infinity.
CA_masked_fill_neg_inf(sim, mask, h, dtype) ==
    [idx \in DOMAIN sim |->
        IF ~mask[<<CA_repeat(mask, h, idx[1]), idx[3]>>]
        THEN NegInf ELSE sim[idx]]

\* Lines 420-423: sim.masked_fill_(~mask, -torch.finfo(sim.dtype).max).
CA_masked_fill(sim, mask, h, dtype) ==
    [idx \in DOMAIN sim |->
        IF ~mask[<<CA_repeat(mask, h, idx[1]), idx[3]>>]
        THEN NegMax(dtype) ELSE sim[idx]]

\* Line 426: sim.softmax(dim=-1).
CA_softmax(sim, bh, n, m) ==
    LET rows == [r \in (1..bh) \X (1..n) |->
                    softmax_row([j \in 1..m |-> sim[<<r[1], r[2], j>>]])]
    IN  [idx \in DOMAIN sim |-> rows[<<idx[1], idx[2]>>][idx[3]]]

\* Lines 407-430: forward.
CA_forward(layer, b, dtype, x, context, mask, bound) ==
    LET h == layer.heads
        frame == [NoCall EXCEPT !.by = "CrossAttention", !.b = b,
                                !.n = Len(x.feat), !.dtype = dtype,
                                !.ctx_given = exists(context), !.mask = mask]
        q == apply_linear(layer.to_q, x)
        c == default(context, x, bound)
        k == apply_linear(layer.to_k, c.v)
        v == apply_linear(layer.to_v, c.v)
    IN  IF q.outcome # "ok" THEN [frame EXCEPT !.outcome = q.outcome]
        ELSE IF c.outcome # "ok" THEN [frame EXCEPT !.outcome = c.outcome]
        ELSE IF k.outcome # "ok" THEN [frame EXCEPT !.outcome = k.outcome]
        ELSE
          LET n == Len(x.feat)
              m == Len(c.v.feat)
              sim0 == CA_sim(layer, q.t.feat, k.t.feat, b)
              sim == IF exists(mask) THEN CA_masked_fill(sim0, mask[1], h, dtype)
                     ELSE sim0
              attn == CA_softmax(sim, b * h, n, m)
          IN  [frame EXCEPT
                 !.outcome = "ok", !.m = m,
                 !.kv_from = IF exists(context) THEN "context" ELSE "x",
                 !.q = q.t.feat, !.k = k.t.feat,
                 !.sim = sim, !.attn = attn,
                 !.out = <<b, n, layer.to_out.out>>,
                 !.out_nan = \E idx \in DOMAIN attn : attn[idx].nan]

MaxCtx == 2            \* a context holds 1..MaxCtx positions
FeatureDims == {1, 2}  \* query_dim, context_dim and the tensors' last dimension
Batches == {1, 2}      \* batch sizes
Queries == {1}         \* numbers of query positions
HeadCounts == {1, 2}   \* heads
DimHeads == {1, 4}     \* dim_head (squares, so that the scale is rational)
Vals == {0, 1}         \* per-position feature values
Dtypes == {"float16", "float32"}

Tensors(lens) ==
    { Tensor3(dim, feat) : dim \in FeatureDims, feat \in UNION { [1..n -> Vals] : n \in lens } }

\* The boolean masks of shape (b, m), or no mask.
Masks(b, m) == {None} \cup { Some(f) : f \in [(1..b) \X (1..m) -> BOOLEAN] }

\* A constructor call; forward's locals of an earlier call are gone.
CrossAttentionInit ==
    /\ ca.fwd.outcome = "none"
    /\ \E qd \in FeatureDims, cd \in {None} \cup {Some(d) : d \in FeatureDims},
          h \in HeadCounts, dh \in DimHeads :
          ca' = CA_init(qd, cd, h, dh, names)
    /\ UNCHANGED <<names, he, affine, proj, enc>>

\* A forward call on a module the constructor returned, run to its return
\* or to the exception it raises; ca.fwd holds the call's frame.
CrossAttentionForward ==
    /\ ca.outcome = "ok"
    /\ ca.fwd.outcome = "none"
    /\ \E b \in Batches, dtype \in Dtypes, x \in Tensors(Queries),
          context \in {None} \cup { Some(t) : t \in Tensors(1..MaxCtx) } :
          \E mask \in Masks(b, IF exists(context) THEN Len(context[1].feat)
                                ELSE Len(x.feat)) :
             ca' = [ca EXCEPT !.fwd = CA_forward(ca, b, dtype, x, context, mask, names)]
    /\ UNCHANGED <<names, he, affine, proj, enc>>

\* The call returns (or its exception propagates) and its frame is dropped.
CrossAttentionReturn ==
    /\ ca.fwd.outcome # "none"
    /\ ca' = [ca EXCEPT !.fwd = NoCall]
    /\ UNCHANGED <<names, he, affine, proj, enc>>

(***************************************************************************)
(* CrossAttentionTransformerEncoderLayer.                                  *)
(***************************************************************************)
EncStr(s) == [kind |-> "str", name |-> s]
EncFn(s) == [kind |-> "callable", name |-> s]
NoAct == [kind |-> "", name |-> ""]

\* The `activation` argument: a string, or the function F.relu / F.gelu.
EncActivations == {EncStr("relu"), EncStr("gelu"), EncStr("tanh"),
                   EncFn("relu"), EncFn("gelu")}

\* Extra keyword arguments of a constructor call: none, or norm_first.
EncKwargs == {"", "norm_first=True", "norm_first=False"}

\* torch's _get_activation_fn: "relu" and "gelu" only, anything else
\* (a callable included) raises RuntimeError.
get_activation_fn(activation) ==
    IF activation \in {EncStr("relu"), EncStr("gelu")}
    THEN [outcome |-> "ok", fn |-> EncFn(activation.name)]
    ELSE [outcome |-> "RuntimeError", fn |-> NoAct]

NoEncCall == [outcome |-> "none", mode |-> "", attn_by |-> "", attn_outcome |-> "",
              src_dim |-> 0]

NoEnc == [outcome |-> "none", d_model |-> 0, nhead |-> 0, kwargs |-> "",
          activation_arg |-> NoAct,
          norm_first |-> FALSE, has_norm_first |-> FALSE,
          self_attn |-> [embed_dim |-> 0, num_heads |-> 0],
          attn |-> NoCA, activation |-> NoAct, activation_relu_or_gelu |-> 0,
          fwd |-> NoEncCall]

\* Line 438: TransformerEncoderLayer.__init__(d_model, nhead, dim_feedforward,
\* dropout, activation).  MultiheadAttention asserts that nhead divides
\* d_model; a string activation is resolved by torch's _get_activation_fn;
\* norm_first is not passed and takes its default, False.
Enc_super(st) ==
    IF st.d_model % st.nhead # 0 THEN [st EXCEPT !.outcome = "AssertionError"]
    ELSE LET sa == [st EXCEPT !.self_attn = [embed_dim |-> st.d_model,
                                             num_heads |-> st.nhead]]
             a == get_activation_fn(st.activation_arg)
         IN  IF st.activation_arg.kind = "str" /\ a.outcome # "ok"
             THEN [sa EXCEPT !.outcome = a.outcome]
             ELSE [sa EXCEPT !.norm_first = FALSE, !.has_norm_first = TRUE,
                             !.activation = IF st.activation_arg.kind = "str"
                                            THEN a.fn ELSE st.activation_arg]

\* Line 439: self.attn = CrossAttention(d_model, nhead, dropout=dropout).
\* The second positional parameter of CrossAttention is context_dim.
Enc_attn(st, bound) ==
    LET a == CA_init(st.d_model, Some(st.nhead), DefaultHeads, DefaultDimHead, bound)
    IN  [st EXCEPT !.attn = a, !.outcome = a.outcome]

\* Lines 440-455.  Line 441 evaluates the free name _get_activation_fn;
\* line 455 stores the constructor's own argument, unresolved.
Enc_rest(st, bound) ==
    IF "_get_activation_fn" \notin bound THEN [st EXCEPT !.outcome = "NameError"]
    ELSE LET a == get_activation_fn(st.activation_arg)
         IN  IF a.outcome # "ok" THEN [st EXCEPT !.outcome = a.outcome]
             ELSE [st EXCEPT
                     !.outcome = "ok",
                     !.activation_relu_or_gelu =
                         IF st.activation_arg = EncFn("relu") THEN 1
                         ELSE IF st.activation_arg = EncFn("gelu") THEN 2 ELSE 0,
                     !.activation = st.activation_arg]

\* Lines 435-455: __init__(d_model, nhead, dim_feedforward, dropout,
\* activation).  Any other keyword is rejected when the call is bound to the
\* signature.  A step that raises ends the constructor; the attributes set
\* so far stay on the object, which the caller never receives.
Enc_init(d_model, nhead, activation, kwargs, bound) ==
    LET s0 == [NoEnc EXCEPT !.outcome = "ok", !.d_model = d_model, !.nhead = nhead,
                            !.kwargs = kwargs, !.activation_arg = activation]
        s1 == Enc_super(s0)
        s2 == Enc_attn(s1, bound)
    IN  IF kwargs # "" THEN [s0 EXCEPT !.outcome = "TypeError"]
        ELSE IF s1.outcome # "ok" THEN s1
        ELSE IF s2.outcome # "ok" THEN s2
        ELSE Enc_rest(s2, bound)

\* Lines 493-509: _attn_block calls self.attn(x, x, x, attn_mask=...,
\* key_padding_mask=..., need_weights=False, is_causal=...);
\* CrossAttention.forward(x, context, mask) takes none of these keywords.
Enc_attn_block(layer) ==
    [attn_by |-> "self.attn", attn_outcome |-> "TypeError"]

\* The inherited _sa_block: self.self_attn(x, x, x, ...), torch's
\* MultiheadAttention, which asserts that the last dimension is embed_dim.
Enc_sa_block(layer, src_dim) ==
    [attn_by |-> "self.self_attn",
     attn_outcome |-> IF src_dim = layer.self_attn.embed_dim THEN "ok"
                      ELSE "AssertionError"]

\* Lines 512-514: _ff_block calls self.activation, which is callable only if
\* it is not a string.
Enc_ff_block(layer) ==
    IF layer.activation.kind = "callable" THEN "ok" ELSE "TypeError"

\* Lines 457-490: forward.  The masks are None.
Enc_forward(layer, src_dim) ==
    LET mode == IF layer.norm_first THEN "pre-norm" ELSE "post-norm"
        a == IF layer.norm_first THEN Enc_attn_block(layer)
             ELSE Enc_sa_block(layer, src_dim)
    IN  [outcome |-> IF a.attn_outcome # "ok" THEN a.attn_outcome
                     ELSE Enc_ff_block(layer),
         mode |-> mode, attn_by |-> a.attn_by, attn_outcome |-> a.attn_outcome,
         src_dim |-> src_dim]

EncoderInit ==
    /\ enc.fwd.outcome = "none"
    /\ \E d \in Dims, h \in Dims, a \in EncActivations, kw \in EncKwargs :
          enc' = Enc_init(d, h, a, kw, names)
    /\ UNCHANGED <<names, he, affine, proj, ca>>

EncoderForward ==
    /\ enc.outcome = "ok"
    /\ enc.fwd.outcome = "none"
    /\ \E src_dim \in Dims : enc' = [enc EXCEPT !.fwd = Enc_forward(enc, src_dim)]
    /\ UNCHANGED <<names, he, affine, proj, ca>>

EncoderReturn ==
    /\ enc.fwd.outcome # "none"
    /\ enc' = [enc EXCEPT !.fwd = NoEncCall]
    /\ UNCHANGED <<names, he, affine, proj, ca>>

(***************************************************************************)
(* Specifications: one per component.                                      *)
(***************************************************************************)
Blank ==
    /\ he = NoTensor
    /\ affine = NoLayer
    /\ proj = NoProj
    /\ ca = NoCA
    /\ enc = NoEnc

\* The module as the file has it: neither free name resolves.
Init == names = {} /\ Blank

\* The module in an environment that may bind its free names.
InitEnv == names \in SUBSET FreeNames /\ Blank

\* The same, for CrossAttention, which evaluates only `isfunction`.
InitAttn == names \in SUBSET {"isfunction"} /\ Blank

NextHe == HeOrthogonalInit
NextLayers == DenseInit \/ DenseForward \/ DenseReturn \/ LinearInit
NextProj == ProjInit \/ ProjForward \/ ProjReturn
NextAttn == CrossAttentionInit \/ CrossAttentionForward \/ CrossAttentionReturn
NextEnc == EncoderInit \/ EncoderForward \/ EncoderReturn

SpecHe == Init /\ [][NextHe]_vars
SpecLayers == Init /\ [][NextLayers]_vars
SpecProj == Init /\ [][NextProj]_vars
SpecAttn == InitAttn /\ [][NextAttn]_vars
SpecEnc == InitEnv /\ [][NextEnc]_vars

(***************************************************************************)
(* he_orthogonal_init: the fan_in of the final scaling.                    *)
(***************************************************************************)
\* C9 as stated: for every rank-2 and every rank-3 tensor, the fan_in used
\* in the scaling by sqrt(1/fan_in) is the product of all dimensions except
\* the last.
C9_FanInAllButLast ==
    (he.outcome = "ok" /\ Len(he.shape) \in {2, 3})
        => he.fan_in = SeqProd(AllButLast(he.shape))

\* C9 amended: for a rank-3 tensor the fan_in is the product of all
\* dimensions except the last; for a rank-2 tensor (fan_out, fan_in) it is
\* the size of the last dimension, shape[1].
C9_FanIn ==
    he.outcome = "ok" =>
        /\ Len(he.shape) = 3 => he.fan_in = he.shape[1] * he.shape[2]
        /\ Len(he.shape) = 2 => he.fan_in = he.shape[2]

\* A rank-2 tensor whose two dimensions differ has been initialized.
C9_Witness ==
    /\ he.outcome = "ok"
    /\ Len(he.shape) = 2
    /\ he.shape[1] # he.shape[2]

(***************************************************************************)
(* Dense and Linear: configuration names.                                  *)
(***************************************************************************)
\* The activations Dense recognizes: None, or "swish" / "silu" in any case.
KnownActivation(a) ==
    \/ a.kind = "None"
    \/ a.kind = "str" /\ lower(a.chars) \in {Swish, Silu}

\* C6 as stated: constructing Dense with an activation other than None,
\* 'swish' or 'silu' (case-insensitively), or constructing Linear with an
\* init string outside the six names, raises before a layer is returned, so
\* no forward call runs on a layer with an unknown activation.
C6_UnknownNameRejected ==
    /\ (affine.kind = "Dense" /\ ~KnownActivation(affine.dense.activation))
          => (affine.dense.outcome = "NotImplementedError" /\ affine.dense.fwd = "none")
    /\ (affine.kind = "Linear" /\ affine.lin.init \notin InitStrings)
          => affine.lin.outcome = "ValueError"
    /\ affine.dense.fwd # "none" => KnownActivation(affine.dense.activation)

\* C6 amended: the same, for Linear only when no init_fn is given (with an
\* init_fn the init string is never looked at, and construction succeeds).
C6_UnknownNameRejectedWithoutInitFn ==
    /\ (affine.kind = "Dense" /\ ~KnownActivation(affine.dense.activation))
          => (affine.dense.outcome = "NotImplementedError" /\ affine.dense.fwd = "none")
    /\ (affine.kind = "Linear" /\ affine.lin.init \notin InitStrings
            /\ affine.lin.init_fn = "None")
          => affine.lin.outcome = "ValueError"
    /\ affine.dense.fwd # "none" => KnownActivation(affine.dense.activation)

\* Linear was called with an unknown init string and no init_fn, and raised.
C6_Witness ==
    /\ affine.kind = "Linear"
    /\ affine.lin.init = "bogus"
    /\ affine.lin.init_fn = "None"
    /\ affine.lin.outcome = "ValueError"

(***************************************************************************)
(* Linear: the gating and final schemes.                                   *)
(***************************************************************************)
AllElements(t, c) == \A i \in DOMAIN t : t[i] = Const(c)

GatingFinalState(o, biasValue) ==
    /\ AllElements(o.weight, 0)
    /\ exists(o.bias) => AllElements(o.bias[1], biasValue)

\* C7 as stated: for every weight shape and both values of the bias flag,
\* right after Linear is constructed with init='gating' every weight element
\* is 0 and every bias element (if any) is 1; with init='final' every weight
\* element is 0 and every bias element (if any) is 0.
C7_GatingFinal ==
    (affine.kind = "Linear" /\ affine.lin.outcome = "ok") =>
        /\ affine.lin.init = "gating" => GatingFinalState(affine.lin.obj, 1)
        /\ affine.lin.init = "final" => GatingFinalState(affine.lin.obj, 0)

\* C7 amended: the same, when no init_fn is given (an init_fn replaces the
\* named scheme, and the tensors are then what it leaves).
C7_GatingFinalWithoutInitFn ==
    (affine.kind = "Linear" /\ affine.lin.outcome = "ok"
        /\ affine.lin.init_fn = "None") =>
        /\ affine.lin.init = "gating" => GatingFinalState(affine.lin.obj, 1)
        /\ affine.lin.init = "final" => GatingFinalState(affine.lin.obj, 0)

\* A gating Linear with a bias and a non-square weight has been constructed.
C7_Witness ==
    /\ affine.kind = "Linear"
    /\ affine.lin.outcome = "ok"
    /\ affine.lin.init = "gating"
    /\ affine.lin.init_fn = "None"
    /\ affine.lin.obj.bias_flag
    /\ affine.lin.obj.out_dim # affine.lin.obj.in_dim

(***************************************************************************)
(* Linear: the order of construction.                                      *)
(***************************************************************************)
NamedOp(init) ==
    CASE init = "default" -> "lecun_normal_init_"
      [] init = "relu" -> "he_normal_init_"
      [] init = "glorot" -> "glorot_uniform_init_"
      [] init = "gating" -> "gating_init_"
      [] init = "normal" -> "normal_init_"
      [] init = "final" -> "final_init_"
      [] OTHER -> ""

NamedOps == {NamedOp(i) : i \in InitStrings}

Count(log, ops) == Cardinality({i \in DOMAIN log : log[i].op \in ops})

\* C10: the bias (if present) is zeroed first; then, with an init_fn, the
\* init_fn runs exactly once, sees the zeroed bias, no named scheme runs and
\* the init string is not validated; without one, exactly the named scheme
\* of the init string runs, and the bias is filled again only by 'gating'
\* (an unknown init string raises, with no scheme run).
C10_ConstructionOrder ==
    affine.kind = "Linear" =>
        LET l == affine.lin
            o == l.obj
            log == o.log
        IN  /\ Count(log, {"bias.fill_(0)"}) = (IF o.bias_flag THEN 1 ELSE 0)
            /\ o.bias_flag => log[1].op = "bias.fill_(0)"
            /\ l.init_fn # "None" =>
                  /\ l.outcome = "ok"
                  /\ Count(log, {"init_fn"}) = 1
                  /\ log[Len(log)] =
                        Entry("init_fn",
                              IF o.bias_flag
                              THEN Some([i \in 1..o.out_dim |-> Const(0)])
                              ELSE None)
                  /\ Count(log, NamedOps \cup {"bias.fill_(1.0)"}) = 0
            /\ (l.init_fn = "None" /\ l.init \in InitStrings) =>
                  /\ l.outcome = "ok"
                  /\ Count(log, {"init_fn"}) = 0
                  /\ Count(log, NamedOps) = 1
                  /\ Count(log, {NamedOp(l.init)}) = 1
                  /\ Count(log, {"bias.fill_(1.0)"}) =
                        (IF l.init = "gating" /\ o.bias_flag THEN 1 ELSE 0)
            /\ (l.init_fn = "None" /\ l.init \notin InitStrings) =>
                  /\ l.outcome = "ValueError"
                  /\ Count(log, NamedOps \cup {"init_fn", "bias.fill_(1.0)"}) = 0

\* A Linear with a bias was constructed with an init_fn and an init string
\* that names no scheme.
C10_Witness ==
    /\ affine.kind = "Linear"
    /\ affine.lin.outcome = "ok"
    /\ affine.lin.init_fn = "ones"
    /\ affine.lin.init = "bogus"
    /\ affine.lin.obj.bias_flag

C1_SelfAttentionDefault ==
    /\ (ca.outcome # "none" /\ ~exists(ca.context_dim_arg))
          => /\ ca.outcome = "ok"
             /\ ca.to_k.in = ca.query_dim
             /\ ca.to_v.in = ca.query_dim
    /\ (ca.fwd.outcome # "none" /\ ~ca.fwd.ctx_given)
          => /\ ca.fwd.outcome \in {"ok", "RuntimeError"}
             /\ ca.fwd.outcome = "ok" => ca.fwd.kv_from = "x"

\* The rows of the similarity that belong to batch item b: one per head.
HeadRows(b, h) == {(b - 1) * h + hh : hh \in 1..h}

FullyMasked(mask, b, m) == \A j \in 1..m : ~mask[<<b, j>>]

\* C5: with a boolean mask, every masked-out similarity entry is, for every
\* head, the most negative finite value of the similarity's dtype (never
\* negative infinity) and every other entry is as computed; so the softmax
\* of a fully masked row holds no NaN and sums to 1.
C5_MaskedSoftmax ==
    (ca.fwd.outcome = "ok" /\ exists(ca.fwd.mask)) =>
        LET f == ca.fwd
            mask == f.mask[1]
            computed == CA_sim(ca, f.q, f.k, f.b)
        IN  \A b \in 1..f.b : \A bh \in HeadRows(b, ca.heads) : \A i \in 1..f.n :
              /\ \A j \in 1..f.m :
                    /\ ~mask[<<b, j>>] => f.sim[<<bh, i, j>>] = NegMax(f.dtype)
                    /\ mask[<<b, j>>] => f.sim[<<bh, i, j>>] = computed[<<bh, i, j>>]
                    /\ f.sim[<<bh, i, j>>].k # "ninf"
              /\ FullyMasked(mask, b, f.m) =>
                    /\ \A j \in 1..f.m :
                          /\ ~f.attn[<<bh, i, j>>].nan
                          /\ f.attn[<<bh, i, j>>].den > 0
                    /\ SetSum([j \in 1..f.m |-> f.attn[<<bh, i, j>>].num], 1..f.m)
                          = f.attn[<<bh, i, 1>>].den
                    /\ ~f.out_nan

\* A two-head call on a batch of two over two context positions, the first
\* batch item fully masked and the second not.
C5_Witness ==
    /\ ca.fwd.outcome = "ok"
    /\ exists(ca.fwd.mask)
    /\ ca.heads = 2
    /\ ca.fwd.b = 2
    /\ ca.fwd.m = 2
    /\ FullyMasked(ca.fwd.mask[1], 1, 2)
    /\ ca.fwd.mask[1][<<2, 1>>]
    /\ ~ca.fwd.mask[1][<<2, 2>>]

C3_ModeSelectedAtConstruction ==
    /\ enc.kwargs = "norm_first=True" => (enc.outcome = "ok" /\ enc.norm_first)
    /\ enc.kwargs = "norm_first=False" => (enc.outcome = "ok" /\ ~enc.norm_first)
    /\ enc.fwd.outcome # "none" =>
          enc.fwd.mode = (IF enc.norm_first THEN "pre-norm" ELSE "post-norm")

\* C4: the CrossAttention module the constructor builds has context_dim
\* equal to query_dim (= d_model) and nhead heads, so its key and value
\* projections take inputs of size d_model.
C4_AttnDimensions ==
    enc.attn.outcome = "ok" =>
        /\ enc.attn.query_dim = enc.d_model
        /\ enc.attn.to_k.in = enc.d_model
        /\ enc.attn.to_v.in = enc.d_model
        /\ enc.attn.heads = enc.nhead

=============================================================================
